---- MODULE Spec2Model ----
(***************************************************************************)
(* Model of src/device.rs of escposify: the three output devices Usb,      *)
(* Network and File<W>, each an implementation of std::io::Write.          *)
(*                                                                         *)
(* The program state is the set of live adapters together with the media   *)
(* they write to: the USB bus (enumerated devices, interface claims), one  *)
(* file-system path, one in-memory Vec<u8> and one TCP peer.  The outcome  *)
(* of every call of an underlying library (rusb, std::fs, std::net) is an  *)
(* input of the action that makes the call.  Every action records the call *)
(* it modelled and the value it returned in lastCall.                      *)
(***************************************************************************)
EXTENDS Integers, Sequences, FiniteSets

VARIABLES
    transport,   \* the kind of adapter the caller of this run works with
    devices,     \* the USB devices in enumeration order
    adapters,    \* the live Usb values
    fsFile,      \* the file at the path given to File::from_path
    fileSink,    \* the live File<fs::File>
    vecSink,     \* the live File<Vec<u8>>
    calls,       \* File::from and the write and flush calls made on vecSink,
                 \* in call order
    netPeer,     \* the bytes the TCP peer was sent
    netSink,     \* the live Network
    lastCall     \* the last call made and what it returned

vars == <<transport, devices, adapters, fsFile, fileSink, vecSink, calls,
          netPeer, netSink, lastCall>>

-----------------------------------------------------------------------------
(* Bounds of the model. *)

MaxDevices == 2
MaxAdapters == 2
MaxLen == 2
MaxFileLen == 3
MaxCalls == 3
MaxStream == 3

Bytes == {1, 2}
BufsUpTo(n) == UNION {[1..k -> Bytes] : k \in 0..n}
Bufs == BufsUpTo(MaxLen)

\* The buffers handed to Usb: Usb::write never looks into them.
UsbBufs == UNION {[1..k -> {27}] : k \in 0..MaxLen}

Ids == {1, 2}

\* The (vendor id, product id) pairs a caller asks Usb::new for.
Requests ==
    {[vendor_id |-> 1, product_id |-> 1], [vendor_id |-> 2, product_id |-> 2]}
Interfaces == {0, 1}

\* The endpoint addresses and the timeout a caller constructs a Usb with.
Profiles ==
    {[endpoint_in_address |-> 129, endpoint_out_address |-> 1, timeout |-> 1000]}

Min(S) == CHOOSE x \in S : \A y \in S : x <= y

-----------------------------------------------------------------------------
(* Results.  A Result<T, E> is Ok(v) or Err(e); a call that unwinds instead *)
(* of returning ends in Panic.                                              *)

Ok(v) == [kind |-> "Ok", val |-> v]
Err(e) == [kind |-> "Err", err |-> e]
Panic == [kind |-> "Panic"]

IsOk(r) == r.kind = "Ok"
IsErr(r) == r.kind = "Err"

\* What a caller can tell about a result without holding the value in it.
Tag(r) == IF IsErr(r) THEN r ELSE [kind |-> r.kind]

\* An io::Error the underlying writer produced itself.
IoError(k) == [kind |-> k, inner |-> "none"]

\* io::Error::new(io::ErrorKind::Other, e)
io_Error_new_Other(e) == [kind |-> "Other", inner |-> e]

\* One step of a call on the underlying library: <<step, argument, outcome>>.
Step(name, arg, outcome) == <<name, arg, outcome>>

-----------------------------------------------------------------------------
(* Usb *)

\* A bug: a device is taken when either identifier is the requested one.
matches_either(desc, vendor_id, product_id) ==
    desc.vid = vendor_id \/ desc.pid = product_id

\* The closure given to find: vendor id and product id both equal.
matches(desc, vendor_id, product_id) ==
    desc.vid = vendor_id /\ desc.pid = product_id

\* The descriptor reads of the first n devices; the read of device bad fails.
read(n, bad) ==
    [i \in 1..n |-> Step("descriptor", i, IF i = bad THEN "Err" ELSE "Ok")]

\* A bug: the last matching device is taken instead of the first.
find_last(devs, vendor_id, product_id, bad) ==
    LET hit == {i \in 1..Len(devs) : matches(devs[i], vendor_id, product_id)}
    IN  IF bad \in 1..Len(devs)
        THEN [kind |-> "Panic", steps |-> read(bad, bad)]
        ELSE IF hit = {}
        THEN [kind |-> "None", steps |-> read(Len(devs), bad)]
        ELSE [kind |-> "Some",
              dev |-> CHOOSE i \in hit : \A j \in hit : j <= i,
              steps |-> read(Len(devs), bad)]

\* context.devices()?.iter().find(|device| ...): the devices are visited in
\* enumeration order; each visit reads the descriptor and unwraps it, so a
\* failing read (of device bad) panics; the visit stops at the first match.
find(devs, vendor_id, product_id, bad) ==
    LET stop == {i \in 1..Len(devs) :
                    \/ i = bad
                    \/ matches(devs[i], vendor_id, product_id)}
    IN  IF stop = {} THEN [kind |-> "None", steps |-> read(Len(devs), bad)]
        ELSE LET i == Min(stop)
             IN  IF i = bad
                 THEN [kind |-> "Panic", steps |-> read(i, bad)]
                 ELSE [kind |-> "Some", dev |-> i, steps |-> read(i, bad)]

\* Interface `interface` of device dev is claimed through a live handle.
Held(ads, dev, interface) ==
    \E a \in ads : a.handle.device = dev /\ interface \in a.handle.claimed

\* handle.claim_interface(interface): the bus gives an interface to one handle
\* at a time; otherwise the outcome is the environment's.
claim_interface(ads, dev, interface, envClaim) ==
    IF Held(ads, dev, interface) THEN "Busy" ELSE envClaim

\* A bug: a failing detach ends the call (`?` in place of unwrap_or_default).
open_and_claim_detach_fatal(ads, dev, interface, env) ==
    IF env.open # "Ok"
    THEN [result |-> Err(env.open), steps |-> <<Step("open", dev, env.open)>>]
    ELSE IF env.detach # "Ok"
    THEN [result |-> Err(env.detach),
          steps |-> <<Step("open", dev, "Ok"),
                      Step("detach", dev, env.detach)>>]
    ELSE LET c == claim_interface(ads, dev, interface, env.claim)
             steps == <<Step("open", dev, "Ok"),
                        Step("detach", dev, env.detach),
                        Step("claim", interface, c)>>
         IN  IF c # "Ok"
             THEN [result |-> Err(c), steps |-> steps]
             ELSE [result |-> Ok([device |-> dev,
                                  auto_detach |-> TRUE,
                                  claimed |-> {interface}]),
                   steps |-> steps]

\* A bug: a failing claim is ignored like a failing detach.
open_and_claim_claim_ignored(ads, dev, interface, env) ==
    IF env.open # "Ok"
    THEN [result |-> Err(env.open), steps |-> <<Step("open", dev, env.open)>>]
    ELSE LET c == claim_interface(ads, dev, interface, env.claim)
         IN  [result |-> Ok([device |-> dev,
                             auto_detach |-> (env.detach = "Ok"),
                             claimed |-> IF c = "Ok" THEN {interface} ELSE {}]),
              steps |-> <<Step("open", dev, "Ok"),
                          Step("detach", dev, env.detach),
                          Step("claim", interface, c)>>]

\* let mut handle = device.open()?;
\* handle.set_auto_detach_kernel_driver(true).unwrap_or_default();
\* handle.claim_interface(interface)?;
\* A handle that is not returned is dropped, which closes it.
open_and_claim(ads, dev, interface, env) ==
    IF env.open # "Ok"
    THEN [result |-> Err(env.open), steps |-> <<Step("open", dev, env.open)>>]
    ELSE LET c == claim_interface(ads, dev, interface, env.claim)
             steps == <<Step("open", dev, "Ok"),
                        Step("detach", dev, env.detach),
                        Step("claim", interface, c)>>
         IN  IF c # "Ok"
             THEN [result |-> Err(c), steps |-> steps]
             ELSE [result |-> Ok([device |-> dev,
                                  auto_detach |-> (env.detach = "Ok"),
                                  claimed |-> {interface}]),
                   steps |-> steps]

\* Usb::new
Usb_new(devs, ads, vendor_id, product_id, interface, endpoint_in_address, endpoint_out_address, timeout, env) ==
    IF env.context # "Ok"
    THEN [result |-> Err(env.context),
          steps |-> <<Step("context", 0, env.context)>>]
    ELSE IF env.devices # "Ok"
    THEN [result |-> Err(env.devices),
          steps |-> <<Step("context", 0, "Ok"),
                      Step("devices", 0, env.devices)>>]
    ELSE LET f == find(devs, vendor_id, product_id, env.descriptor)
             pre == <<Step("context", 0, "Ok"), Step("devices", 0, "Ok")>>
                        \o f.steps
         IN  CASE f.kind = "Panic" -> [result |-> Panic, steps |-> pre]
               [] f.kind = "None" ->
                    [result |-> Err("NotFound"), steps |-> pre]
               [] f.kind = "Some" ->
                    LET oc == open_and_claim(ads, f.dev, interface, env)
                    IN  IF IsOk(oc.result)
                        THEN [result |-> Ok([
                                  _vendor_id |-> vendor_id,
                                  _product_id |-> product_id,
                                  _interface |-> interface,
                                  _endpoint_in_address |-> endpoint_in_address,
                                  _endpoint_out_address |-> endpoint_out_address,
                                  _timeout |-> timeout,
                                  handle |-> oc.result.val]),
                              steps |-> pre \o oc.steps]
                        ELSE [result |-> oc.result, steps |-> pre \o oc.steps]

\* A bug: the count the transfer reports is returned.
Usb_write_reports_count(self, buf, bulk) ==
    [result |-> IF IsOk(bulk) THEN Ok(bulk.val)
                ELSE Err(io_Error_new_Other(bulk.err)),
     transfers |-> <<[endpoint |-> self._endpoint_out_address,
                      data |-> buf,
                      timeout |-> self._timeout,
                      outcome |-> bulk]>>]

\* A bug: the transfer goes to the inbound endpoint.
Usb_write_inbound(self, buf, bulk) ==
    [result |-> IF IsOk(bulk) THEN Ok(Len(buf))
                ELSE Err(io_Error_new_Other(bulk.err)),
     transfers |-> <<[endpoint |-> self._endpoint_in_address,
                      data |-> buf,
                      timeout |-> self._timeout,
                      outcome |-> bulk]>>]

\* <Usb as io::Write>::write: one write_bulk of buf to the outbound endpoint
\* with the timeout of the adapter; bulk is what write_bulk returns.
Usb_write(self, buf, bulk) ==
    [result |-> IF IsOk(bulk) THEN Ok(Len(buf))
                ELSE Err(io_Error_new_Other(bulk.err)),
     transfers |-> <<[endpoint |-> self._endpoint_out_address,
                      data |-> buf,
                      timeout |-> self._timeout,
                      outcome |-> bulk]>>]

\* <Usb as io::Write>::flush
Usb_flush(self) == [result |-> Ok("unit"), transfers |-> <<>>]

\* What write_bulk can return for a buffer: a count up to its length or an error.
BulkErrors == {"Timeout"}
BulkOutcomes(buf) == {Ok(k) : k \in 0..Len(buf)} \cup {Err(e) : e \in BulkErrors}

-----------------------------------------------------------------------------
(* The writers File<W> and Network wrap. *)

\* data with bytes written over it from offset pos on (pos <= Len(data))
Overwrite(data, pos, bytes) ==
    SubSeq(data, 1, pos) \o bytes \o SubSeq(data, pos + Len(bytes) + 1, Len(data))

\* W::write of the three writers: Vec<u8> appends the whole buffer; an
\* fs::File and a TcpStream take the count the operating system accepts
\* (ret = Ok(n), n <= len) or fail (ret = Err(e)).  out is what was taken.
W_write(w, buf, ret) ==
    CASE w.kind = "Vec" ->
            [result |-> Ok(Len(buf)),
             w |-> [w EXCEPT !.data = @ \o buf],
             out |-> buf]
      [] w.kind = "fs" ->
            IF IsOk(ret)
            THEN [result |-> ret,
                  w |-> [w EXCEPT !.pos = @ + ret.val],
                  out |-> SubSeq(buf, 1, ret.val)]
            ELSE [result |-> ret, w |-> w, out |-> <<>>]
      [] w.kind = "tcp" ->
            IF IsOk(ret)
            THEN [result |-> ret, w |-> w, out |-> SubSeq(buf, 1, ret.val)]
            ELSE [result |-> ret, w |-> w, out |-> <<>>]

\* W::flush of the three writers: none of them buffers, all return Ok(()).
W_flush(w) == [result |-> Ok("unit"), w |-> w]

IoErrors == {"BrokenPipe"}
WriteOutcomes(w, buf) ==
    IF w.kind = "Vec" THEN {Ok(Len(buf))}
    ELSE {Ok(n) : n \in 0..Len(buf)} \cup {Err(IoError(e)) : e \in IoErrors}

-----------------------------------------------------------------------------
(* Network *)

NoSink == [live |-> FALSE]

\* Network::new
Network_new(host, port, connect) ==
    IF connect # "Ok" THEN Err(IoError(connect))
    ELSE Ok([live |-> TRUE, _host |-> host, _port |-> port,
             stream |-> [kind |-> "tcp"]])

\* A bug: a short write is reported as an error.
Network_write_all(self, buf, ret) ==
    LET r == W_write(self.stream, buf, ret)
    IN  [result |-> IF IsOk(r.result) /\ r.result.val < Len(buf)
                    THEN Err(IoError("WriteZero")) ELSE r.result,
         self |-> [self EXCEPT !.stream = r.w],
         out |-> r.out]

\* <Network as io::Write>::write
Network_write(self, buf, ret) ==
    LET r == W_write(self.stream, buf, ret)
    IN  [result |-> r.result,
         self |-> [self EXCEPT !.stream = r.w],
         out |-> r.out]

\* <Network as io::Write>::flush
Network_flush(self) ==
    LET r == W_flush(self.stream)
    IN  [result |-> r.result, self |-> [self EXCEPT !.stream = r.w]]

-----------------------------------------------------------------------------
(* File<W> *)

\* A bug: the file is opened for appending.
File_from_path_append(fs, open) ==
    IF open # "Ok"
    THEN [result |-> Err(IoError(open)), fs |-> fs]
    ELSE [result |-> Ok([live |-> TRUE,
                         fobj |-> [kind |-> "fs",
                                   pos |-> IF fs.exists THEN Len(fs.data) ELSE 0]]),
          fs |-> IF fs.exists THEN fs ELSE [exists |-> TRUE, data |-> <<>>]]

\* File::from_path: OpenOptions write(true).create(true): a missing file is
\* created empty, an existing one keeps its content, the cursor is at 0.
File_from_path(fs, open) ==
    IF open # "Ok"
    THEN [result |-> Err(IoError(open)), fs |-> fs]
    ELSE [result |-> Ok([live |-> TRUE, fobj |-> [kind |-> "fs", pos |-> 0]]),
          fs |-> IF fs.exists THEN fs ELSE [exists |-> TRUE, data |-> <<>>]]

\* File::from
File_from(fobj) == [live |-> TRUE, fobj |-> fobj]

\* <File<W> as io::Write>::write
File_write(self, buf, ret) ==
    LET r == W_write(self.fobj, buf, ret)
    IN  [result |-> r.result,
         self |-> [self EXCEPT !.fobj = r.w],
         out |-> r.out]

\* A bug: flush empties the writer.
File_flush_clears(self) ==
    IF self.fobj.kind = "Vec"
    THEN [result |-> Ok("unit"), self |-> [self EXCEPT !.fobj.data = <<>>]]
    ELSE [result |-> Ok("unit"), self |-> self]

\* <File<W> as io::Write>::flush
File_flush(self) ==
    LET r == W_flush(self.fobj)
    IN  [result |-> r.result, self |-> [self EXCEPT !.fobj = r.w]]

-----------------------------------------------------------------------------
(* The state machine. *)

Transports == {"usb", "path", "vec", "tcp"}

Descriptors == [vid : Ids, pid : Ids]
Buses == UNION {[1..n -> Descriptors] : n \in 0..MaxDevices}

\* The outcomes of the rusb calls Usb::new makes: every call succeeds, or one
\* of them fails (descriptor names the device whose descriptor read fails);
\* the calls after a failing open are not made.
AllOk ==
    [context |-> "Ok", devices |-> "Ok", descriptor |-> 0, open |-> "Ok",
     detach |-> "Ok", claim |-> "Ok"]

Envs(devs) ==
    {[AllOk EXCEPT !.context = "Other"],
     [AllOk EXCEPT !.devices = "NoMem"],
     [AllOk EXCEPT !.open = "NoDevice"]}
    \cup {[AllOk EXCEPT !.descriptor = i] : i \in 1..Len(devs)}
    \cup {[AllOk EXCEPT !.detach = d, !.claim = c] :
            d \in {"Ok", "NotSupported"}, c \in {"Ok", "Busy", "Access"}}

Absent == [exists |-> FALSE, data |-> <<>>]
Files == {Absent} \cup {[exists |-> TRUE, data |-> d] : d \in BufsUpTo(MaxFileLen)}

Hosts == {"printer"}
Ports == {9100}

Running == lastCall.result.kind # "Panic"

Init ==
    /\ transport \in Transports
    /\ devices \in (IF transport = "usb" THEN Buses ELSE {<<>>})
    /\ adapters = {}
    /\ fsFile \in (IF transport = "path" THEN Files ELSE {Absent})
    /\ fileSink = NoSink
    /\ vecSink = NoSink
    /\ calls = <<>>
    /\ netPeer = [received |-> <<>>]
    /\ netSink = NoSink
    /\ lastCall = [op |-> "none", result |-> [kind |-> "None"]]

UsbNew ==
    /\ transport = "usb"
    /\ Running
    /\ Cardinality(adapters) < MaxAdapters
    /\ \E q \in Requests, interface \in Interfaces, p \in Profiles,
          env \in Envs(devices) :
        LET r == Usb_new(devices, adapters, q.vendor_id, q.product_id, interface,
                         p.endpoint_in_address, p.endpoint_out_address,
                         p.timeout, env)
        IN  /\ adapters' = IF IsOk(r.result)
                           THEN adapters \cup {r.result.val}
                           ELSE adapters
            /\ lastCall' = [op |-> "Usb::new",
                            vendor_id |-> q.vendor_id,
                            product_id |-> q.product_id,
                            interface |-> interface,
                            profile |-> p,
                            steps |-> r.steps,
                            before |-> adapters,
                            result |-> Tag(r.result)]
    /\ UNCHANGED <<transport, devices, fsFile, fileSink, vecSink, calls,
                   netPeer, netSink>>

UsbWrite ==
    /\ transport = "usb"
    /\ Running
    /\ \E self \in adapters :
       \E buf \in UsbBufs :
       \E bulk \in BulkOutcomes(buf) :
        LET r == Usb_write(self, buf, bulk)
        IN  lastCall' = [op |-> "Usb::write",
                         self |-> self,
                         buf |-> buf,
                         bulk |-> bulk,
                         transfers |-> r.transfers,
                         afterError |-> /\ lastCall.op = "Usb::write"
                                        /\ lastCall.self = self
                                        /\ IsErr(lastCall.result),
                         result |-> r.result]
    /\ UNCHANGED <<transport, devices, adapters, fsFile, fileSink, vecSink,
                   calls, netPeer, netSink>>

UsbFlush ==
    /\ transport = "usb"
    /\ Running
    /\ \E self \in adapters :
        LET r == Usb_flush(self)
        IN  lastCall' = [op |-> "Usb::flush",
                         self |-> self,
                         transfers |-> r.transfers,
                         result |-> r.result]
    /\ UNCHANGED <<transport, devices, adapters, fsFile, fileSink, vecSink,
                   calls, netPeer, netSink>>

\* Dropping a Usb drops its handle, which releases its claims and closes it.
UsbDrop ==
    /\ transport = "usb"
    /\ Running
    /\ \E self \in adapters :
        /\ adapters' = adapters \ {self}
        /\ lastCall' = [op |-> "Usb::drop", self |-> self,
                        result |-> Ok("unit")]
    /\ UNCHANGED <<transport, devices, fsFile, fileSink, vecSink, calls,
                   netPeer, netSink>>

FileFromPath ==
    /\ transport = "path"
    /\ ~fileSink.live
    /\ \E open \in {"Ok", "PermissionDenied"} :
        LET r == File_from_path(fsFile, open)
        IN  /\ fsFile' = r.fs
            /\ fileSink' = IF IsOk(r.result) THEN r.result.val ELSE fileSink
            /\ lastCall' = [op |-> "File::from_path",
                            before |-> fsFile,
                            result |-> Tag(r.result)]
    /\ UNCHANGED <<transport, devices, adapters, vecSink, calls, netPeer,
                   netSink>>

PathWrite ==
    /\ transport = "path"
    /\ fileSink.live
    /\ \E buf \in Bufs :
        /\ fileSink.fobj.pos + Len(buf) <= MaxFileLen
        /\ \E ret \in WriteOutcomes(fileSink.fobj, buf) :
            LET r == File_write(fileSink, buf, ret)
            IN  /\ fileSink' = r.self
                /\ fsFile' = [fsFile EXCEPT
                                !.data = Overwrite(@, fileSink.fobj.pos, r.out)]
                /\ lastCall' = [op |-> "File::write",
                                writer |-> "fs",
                                buf |-> buf,
                                ret |-> ret,
                                first |-> (lastCall.op = "File::from_path"),
                                pos |-> fileSink.fobj.pos,
                                before |-> fsFile.data,
                                result |-> r.result]
    /\ UNCHANGED <<transport, devices, adapters, vecSink, calls, netPeer,
                   netSink>>

PathFlush ==
    /\ transport = "path"
    /\ fileSink.live
    /\ LET r == File_flush(fileSink)
       IN  /\ fileSink' = r.self
           /\ lastCall' = [op |-> "File::flush", writer |-> "fs",
                           result |-> r.result]
    /\ UNCHANGED <<transport, devices, adapters, fsFile, vecSink, calls,
                   netPeer, netSink>>

\* Dropping the File closes the fs::File; the file stays as it is.
PathDrop ==
    /\ transport = "path"
    /\ fileSink.live
    /\ fileSink' = NoSink
    /\ lastCall' = [op |-> "File::drop", result |-> Ok("unit")]
    /\ UNCHANGED <<transport, devices, adapters, fsFile, vecSink, calls,
                   netPeer, netSink>>

\* The contents of the Vec<u8> a caller hands to File::from.
VecInitials == {<<>>, <<1>>, <<2, 1>>}

\* File::from(fobj) over a Vec<u8> of any contents.
VecFrom ==
    /\ transport = "vec"
    /\ ~vecSink.live
    /\ \E initial \in VecInitials :
        /\ vecSink' = File_from([kind |-> "Vec", data |-> initial])
        /\ calls' = <<[op |-> "from", buf |-> initial,
                       result |-> Ok("unit")]>>
        /\ lastCall' = [op |-> "File::from", initial |-> initial,
                        result |-> [kind |-> "Ok"]]
    /\ UNCHANGED <<transport, devices, adapters, fsFile, fileSink, netPeer,
                   netSink>>

VecWrite ==
    /\ transport = "vec"
    /\ vecSink.live
    /\ Len(calls) <= MaxCalls
    /\ \E buf \in Bufs :
       \E ret \in WriteOutcomes(vecSink.fobj, buf) :
        LET r == File_write(vecSink, buf, ret)
        IN  /\ vecSink' = r.self
            /\ calls' = Append(calls, [op |-> "write", buf |-> buf,
                                       result |-> r.result])
            /\ lastCall' = [op |-> "File::write",
                            writer |-> "Vec",
                            buf |-> buf,
                            ret |-> ret,
                            result |-> r.result]
    /\ UNCHANGED <<transport, devices, adapters, fsFile, fileSink, netPeer,
                   netSink>>

VecFlush ==
    /\ transport = "vec"
    /\ vecSink.live
    /\ Len(calls) <= MaxCalls
    /\ LET r == File_flush(vecSink)
       IN  /\ vecSink' = r.self
           /\ calls' = Append(calls, [op |-> "flush", buf |-> <<>>,
                                      result |-> r.result])
           /\ lastCall' = [op |-> "File::flush", writer |-> "Vec",
                           result |-> r.result]
    /\ UNCHANGED <<transport, devices, adapters, fsFile, fileSink, netPeer,
                   netSink>>

VecDrop ==
    /\ transport = "vec"
    /\ vecSink.live
    /\ vecSink' = NoSink
    /\ calls' = <<>>
    /\ lastCall' = [op |-> "File::drop", result |-> Ok("unit")]
    /\ UNCHANGED <<transport, devices, adapters, fsFile, fileSink, netPeer,
                   netSink>>

NetNew ==
    /\ transport = "tcp"
    /\ ~netSink.live
    /\ \E host \in Hosts, port \in Ports,
          connect \in {"Ok", "ConnectionRefused"} :
        LET r == Network_new(host, port, connect)
        IN  /\ netSink' = IF IsOk(r) THEN r.val ELSE netSink
            /\ lastCall' = [op |-> "Network::new", result |-> Tag(r)]
    /\ UNCHANGED <<transport, devices, adapters, fsFile, fileSink, vecSink,
                   calls, netPeer>>

NetWrite ==
    /\ transport = "tcp"
    /\ netSink.live
    /\ \E buf \in Bufs :
        /\ Len(netPeer.received) + Len(buf) <= MaxStream
        /\ \E ret \in WriteOutcomes(netSink.stream, buf) :
            LET r == Network_write(netSink, buf, ret)
            IN  /\ netSink' = r.self
                /\ netPeer' = [netPeer EXCEPT !.received = @ \o r.out]
                /\ lastCall' = [op |-> "Network::write",
                                buf |-> buf,
                                ret |-> ret,
                                before |-> netPeer.received,
                                result |-> r.result]
    /\ UNCHANGED <<transport, devices, adapters, fsFile, fileSink, vecSink,
                   calls>>

NetFlush ==
    /\ transport = "tcp"
    /\ netSink.live
    /\ LET r == Network_flush(netSink)
       IN  /\ netSink' = r.self
           /\ lastCall' = [op |-> "Network::flush", result |-> r.result]
    /\ UNCHANGED <<transport, devices, adapters, fsFile, fileSink, vecSink,
                   calls, netPeer>>

\* Dropping the Network closes the stream; the peer starts a new connection.
NetDrop ==
    /\ transport = "tcp"
    /\ netSink.live
    /\ netSink' = NoSink
    /\ netPeer' = [received |-> <<>>]
    /\ lastCall' = [op |-> "Network::drop", result |-> Ok("unit")]
    /\ UNCHANGED <<transport, devices, adapters, fsFile, fileSink, vecSink,
                   calls>>

NextUsb ==
    \/ UsbNew
    \/ UsbWrite
    \/ UsbFlush
    \/ UsbDrop

NextPath ==
    \/ FileFromPath
    \/ PathWrite
    \/ PathFlush
    \/ PathDrop

NextVec ==
    \/ VecFrom
    \/ VecWrite
    \/ VecFlush
    \/ VecDrop

NextNet ==
    \/ NetNew
    \/ NetWrite
    \/ NetFlush
    \/ NetDrop

Next ==
    \/ NextUsb
    \/ NextPath
    \/ NextVec
    \/ NextNet

\* A caller with an adapter of any of the kinds.
Spec == Init /\ [][Next]_vars

\* A caller of Usb.
InitUsb == Init /\ transport = "usb"

SpecUsb == InitUsb /\ [][NextUsb]_vars

\* A caller of File::from_path.
InitPath == Init /\ transport = "path"

SpecPath == InitPath /\ [][NextPath]_vars

\* A caller of File::from over a Vec<u8>.
InitVec == Init /\ transport = "vec"

SpecVec == InitVec /\ [][NextVec]_vars

-----------------------------------------------------------------------------
(* The properties. *)

WriteOps == {"Usb::write", "File::write", "Network::write"}

\* The indices of the steps of the last call that are named name.
StepsNamed(name) ==
    {i \in DOMAIN lastCall.steps : lastCall.steps[i][1] = name}

\* The devices with both the vendor id and the product id of the last call.
FullMatches ==
    {i \in 1..Len(devices) :
        /\ devices[i].vid = lastCall.vendor_id
        /\ devices[i].pid = lastCall.product_id}

\* The buffers of the Ok writes of a log of calls, one after the other.
RECURSIVE Concat(_)
Concat(log) ==
    IF log = <<>> THEN <<>>
    ELSE (IF Head(log).op = "write" /\ IsOk(Head(log).result)
          THEN Head(log).buf ELSE <<>>) \o Concat(Tail(log))

\* C1 as stated: a write of any adapter returns Ok(len(b)) or an error, never
\* Ok(n) with n < len(b).
C1_WriteAllOrError ==
    (lastCall.op \in WriteOps /\ IsOk(lastCall.result))
        => lastCall.result.val = Len(lastCall.buf)

\* C1 amended: Usb::write returns Ok(len(b)) or an error and passes the whole
\* buffer to its bulk transfer; File::write and Network::write return what the
\* write of the wrapped writer returns, unchanged, and the writer has taken
\* exactly the bytes it reports: Ok(n) with n < len(b) is returned as it is.
C1_WriteReturnsWhatTheWriterReturns ==
    /\ (lastCall.op = "Usb::write" /\ IsOk(lastCall.result))
        => /\ lastCall.result.val = Len(lastCall.buf)
           /\ Len(lastCall.transfers) = 1
           /\ lastCall.transfers[1].data = lastCall.buf
    /\ lastCall.op = "Usb::write" => lastCall.result.kind \in {"Ok", "Err"}
    /\ lastCall.op \in {"File::write", "Network::write"}
        => /\ lastCall.result = lastCall.ret
           /\ IsOk(lastCall.result) => lastCall.result.val <= Len(lastCall.buf)
    /\ lastCall.op = "Network::write"
        => netPeer.received =
              lastCall.before \o
                (IF IsOk(lastCall.ret)
                 THEN SubSeq(lastCall.buf, 1, lastCall.ret.val) ELSE <<>>)
    /\ (lastCall.op = "File::write" /\ lastCall.writer = "Vec")
        => lastCall.result = Ok(Len(lastCall.buf))

\* A Network::write that returned a count between 0 and the buffer's length.
C1_Witness ==
    /\ lastCall.op = "Network::write"
    /\ IsOk(lastCall.result)
    /\ 0 < lastCall.result.val
    /\ lastCall.result.val < Len(lastCall.buf)
    /\ netPeer.received # <<>>

\* C2 as stated: after File::from_path, whatever the file held, a write(b)
\* that returns Ok(len(b)) leaves exactly b in the file.
C2_RoundTripOverAnyContent ==
    (/\ lastCall.op = "File::write"
     /\ lastCall.writer = "fs"
     /\ lastCall.first
     /\ lastCall.result = Ok(Len(lastCall.buf)))
        => fsFile.data = lastCall.buf

\* C2 amended: the first write(b) after File::from_path that returns Ok(n)
\* leaves in the file the first n bytes of b followed by the bytes the file
\* held past offset n; so the file reads back as exactly b when the write
\* returns Ok(len(b)) and the file was missing or held no more than len(b)
\* bytes.
C2_RoundTripOverShorterContent ==
    (/\ lastCall.op = "File::write"
     /\ lastCall.writer = "fs"
     /\ lastCall.first
     /\ IsOk(lastCall.result))
        => /\ fsFile.exists
           /\ fsFile.data =
                SubSeq(lastCall.buf, 1, lastCall.result.val) \o
                SubSeq(lastCall.before, lastCall.result.val + 1,
                       Len(lastCall.before))
           /\ (/\ lastCall.result.val = Len(lastCall.buf)
               /\ Len(lastCall.before) <= Len(lastCall.buf))
                => fsFile.data = lastCall.buf

\* A first write over other, not longer, content that reads back as written.
C2_Witness ==
    /\ lastCall.op = "File::write"
    /\ lastCall.writer = "fs"
    /\ lastCall.first
    /\ lastCall.before # <<>>
    /\ Len(lastCall.before) <= Len(lastCall.buf)
    /\ lastCall.before # SubSeq(lastCall.buf, 1, Len(lastCall.before))
    /\ lastCall.result = Ok(Len(lastCall.buf))
    /\ fsFile.data = lastCall.buf

\* C3: Usb::write returns Ok(len(buf)) for every count the bulk transfer
\* reports on success, and an io::Error of kind Other wrapping the transfer's
\* error, never an Ok, when the transfer fails.
C3_UsbWriteReportsFullLength ==
    lastCall.op = "Usb::write"
        => /\ IsOk(lastCall.bulk) => lastCall.result = Ok(Len(lastCall.buf))
           /\ IsErr(lastCall.bulk)
                => lastCall.result =
                      Err([kind |-> "Other", inner |-> lastCall.bulk.err])

\* A transfer that moved fewer bytes than the buffer holds, reported as whole.
C3_Witness ==
    /\ lastCall.op = "Usb::write"
    /\ IsOk(lastCall.bulk)
    /\ lastCall.bulk.val < Len(lastCall.buf)
    /\ lastCall.result = Ok(Len(lastCall.buf))

\* C4: when the devices were enumerated, their descriptors read, and none
\* has both identifiers, Usb::new returns NotFound, has opened no device, set
\* no auto-detach and claimed no interface, and the live adapters with their
\* handles and claims are those of before the call.
C4_NotFoundWhenNoDeviceMatches ==
    (/\ lastCall.op = "Usb::new"
     /\ StepsNamed("devices") # {}
     /\ \A i \in StepsNamed("devices") \cup StepsNamed("descriptor") :
            lastCall.steps[i][3] = "Ok"
     /\ FullMatches = {})
        => /\ lastCall.result = Err("NotFound")
           /\ Cardinality(StepsNamed("descriptor")) = Len(devices)
           /\ StepsNamed("open") = {}
           /\ StepsNamed("detach") = {}
           /\ StepsNamed("claim") = {}
           /\ adapters = lastCall.before

\* NotFound on a bus of two devices, one of them with the vendor id only,
\* while the adapter of an earlier call holds a claim on the other.
C4_Witness ==
    /\ lastCall.op = "Usb::new"
    /\ lastCall.result = Err("NotFound")
    /\ Len(devices) = 2
    /\ \E i \in 1..2 :
        /\ devices[i].vid = lastCall.vendor_id
        /\ devices[i].pid # lastCall.product_id
    /\ adapters # {}
    /\ adapters = lastCall.before

\* C5: a (device, interface) pair is claimed by at most one live Usb, every
\* live Usb holds the claim on its interface, and a Usb::new that selects a
\* device whose requested interface a live Usb holds returns an error (Busy,
\* from the claim, whenever the device was opened), and no adapter.
C5_ClaimIsExclusive ==
    /\ \A a \in adapters :
        /\ a._interface \in a.handle.claimed
        /\ \A b \in adapters :
            (/\ a.handle.device = b.handle.device
             /\ a.handle.claimed \cap b.handle.claimed # {}) => a = b
    /\ lastCall.op = "Usb::new"
        => \A i \in StepsNamed("open") :
              Held(lastCall.before, lastCall.steps[i][2], lastCall.interface)
                => /\ lastCall.result.kind = "Err"
                   /\ lastCall.steps[i][3] = "Ok"
                        => lastCall.result = Err("Busy")
                   /\ adapters = lastCall.before

\* A second Usb::new for a claimed (device, interface) that failed as busy.
C5_Witness ==
    /\ lastCall.op = "Usb::new"
    /\ \E i \in StepsNamed("open") :
        /\ Held(lastCall.before, lastCall.steps[i][2], lastCall.interface)
        /\ lastCall.steps[i][3] = "Ok"
    /\ lastCall.result = Err("Busy")
    /\ Cardinality(adapters) = 1

\* C6 as stated: once written to, the Vec<u8> a File wraps holds the buffers
\* of the Ok writes, one after the other in call order, whatever flush calls
\* were made in between.
C6_VecHoldsConcatenation ==
    (/\ vecSink.live
     /\ \E i \in DOMAIN calls : calls[i].op = "write")
        => vecSink.fobj.data = Concat(calls)

\* C6 amended: the Vec<u8> a File wraps holds what it held when it was given
\* to File::from, followed by the buffers of the Ok writes, one after the
\* other in call order, whatever flush calls were made in between; every
\* write on it returns Ok(len).
C6_VecHoldsInitialThenConcatenation ==
    vecSink.live
        => /\ calls # <<>>
           /\ calls[1].op = "from"
           /\ \A i \in 2..Len(calls) :
                /\ calls[i].op \in {"write", "flush"}
                /\ calls[i].op = "write"
                    => calls[i].result = Ok(Len(calls[i].buf))
           /\ vecSink.fobj.data = calls[1].buf \o Concat(calls)
           /\ calls[1].buf = <<>> => vecSink.fobj.data = Concat(calls)

\* Two different non-empty writes with a flush between them, on a Vec that
\* was not empty when it was wrapped.
C6_Witness ==
    /\ vecSink.live
    /\ Len(calls) = 4
    /\ calls[1].buf # <<>>
    /\ calls[2].op = "write" /\ calls[3].op = "flush" /\ calls[4].op = "write"
    /\ calls[2].buf # <<>> /\ calls[4].buf # <<>>
    /\ calls[2].buf # calls[4].buf
    /\ vecSink.fobj.data = calls[1].buf \o calls[2].buf \o calls[4].buf

\* C7 as stated: Usb::new ends in Ok or Err, and ends in Err whenever a step
\* other than the detach failed.
C7_EveryFailureIsReturned ==
    lastCall.op = "Usb::new"
        => /\ lastCall.result.kind \in {"Ok", "Err"}
           /\ (\E i \in DOMAIN lastCall.steps :
                  /\ lastCall.steps[i][1] # "detach"
                  /\ lastCall.steps[i][3] # "Ok")
                => lastCall.result.kind = "Err"

\* C8: once a device is opened the steps are open, detach, claim, in this
\* order, and Usb::new returns Ok exactly when the claim succeeds and the
\* claim's error when it fails, whatever the detach returned.
C8_DetachOutcomeIsIgnored ==
    lastCall.op = "Usb::new"
        => \A i \in StepsNamed("open") :
              lastCall.steps[i][3] = "Ok"
                => /\ Len(lastCall.steps) = i + 2
                   /\ lastCall.steps[i + 1][1] = "detach"
                   /\ lastCall.steps[i + 2][1] = "claim"
                   /\ lastCall.steps[i + 2][2] = lastCall.interface
                   /\ (lastCall.steps[i + 2][3] = "Ok")
                        <=> (lastCall.result.kind = "Ok")
                   /\ lastCall.steps[i + 2][3] # "Ok"
                        => lastCall.result = Err(lastCall.steps[i + 2][3])

\* A Usb::new that returned Ok although the detach failed.
C8_Witness ==
    /\ lastCall.op = "Usb::new"
    /\ lastCall.result.kind = "Ok"
    /\ \E i \in StepsNamed("detach") : lastCall.steps[i][3] # "Ok"
    /\ \E a \in adapters : ~a.handle.auto_detach

\* C9: the device Usb::new opens is the first in enumeration order with both
\* identifiers; it is opened whenever there is one and the steps before the
\* open succeeded; the adapter returned holds a handle of that device.
C9_FirstFullMatchIsSelected ==
    lastCall.op = "Usb::new"
        => /\ \A i \in StepsNamed("open") :
                /\ lastCall.steps[i][2] \in FullMatches
                /\ \A j \in FullMatches : lastCall.steps[i][2] <= j
           /\ (/\ FullMatches # {}
               /\ \A i \in DOMAIN lastCall.steps :
                    lastCall.steps[i][1] \in {"context", "devices", "descriptor"}
                        => lastCall.steps[i][3] = "Ok")
                => \E i \in StepsNamed("open") :
                        lastCall.steps[i][2] = Min(FullMatches)
           /\ lastCall.result.kind = "Ok"
                => \E a \in adapters :
                    /\ a.handle.device = Min(FullMatches)
                    /\ a._vendor_id = lastCall.vendor_id
                    /\ a._product_id = lastCall.product_id

\* The second device is selected: the first has the vendor id only.
C9_Witness ==
    /\ lastCall.op = "Usb::new"
    /\ lastCall.result.kind = "Ok"
    /\ Len(devices) = 2
    /\ devices[1].vid = lastCall.vendor_id
    /\ devices[1].pid # lastCall.product_id
    /\ FullMatches = {2}
    /\ \E a \in adapters : a.handle.device = 2

\* C10: a Usb is built with the endpoints and the timeout given to Usb::new;
\* every write makes one bulk transfer of the whole buffer to the outbound
\* endpoint with that timeout, also after a write that failed, and returns
\* Ok(len) when the transfer succeeds; every flush makes no transfer and
\* returns Ok; the adapter stays as it is.
C10_OneTransferPerWrite ==
    /\ (lastCall.op = "Usb::new" /\ lastCall.result.kind = "Ok")
        => \E a \in adapters :
            /\ a._interface = lastCall.interface
            /\ a._endpoint_in_address = lastCall.profile.endpoint_in_address
            /\ a._endpoint_out_address = lastCall.profile.endpoint_out_address
            /\ a._timeout = lastCall.profile.timeout
    /\ lastCall.op = "Usb::write"
        => /\ lastCall.self \in adapters
           /\ Len(lastCall.transfers) = 1
           /\ lastCall.transfers[1].endpoint = lastCall.self._endpoint_out_address
           /\ lastCall.transfers[1].endpoint # lastCall.self._endpoint_in_address
           /\ lastCall.transfers[1].timeout = lastCall.self._timeout
           /\ lastCall.transfers[1].data = lastCall.buf
           /\ lastCall.transfers[1].outcome = lastCall.bulk
           /\ IsOk(lastCall.bulk) => lastCall.result = Ok(Len(lastCall.buf))
    /\ lastCall.op = "Usb::flush"
        => /\ lastCall.self \in adapters
           /\ lastCall.transfers = <<>>
           /\ lastCall.result = Ok("unit")

\* A write that succeeded right after a failed write on the same adapter.
C10_Witness ==
    /\ lastCall.op = "Usb::write"
    /\ lastCall.afterError
    /\ lastCall.buf # <<>>
    /\ lastCall.result = Ok(Len(lastCall.buf))

====
